---- MODULE Spec2Model ----
(***************************************************************************)
(* Model of the GFDL futures scanner (src/gfdl_future.py) and of the       *)
(* two-minute turnover flow bot (src/turnover_flow_scanner.py).            *)
(*                                                                         *)
(* The scanner keeps one state record per watched symbol and a table of    *)
(* the latest future price per underlying; process_data handles one tick.  *)
(* The flow bot buffers the alerts it can parse from its channel           *)
(* (message_handler) and a repeating job turns the buffer into a report    *)
(* (process_summary).                                                      *)
(*                                                                         *)
(* Python's None is the empty tuple, a present value v is <<v>>.           *)
(* A symbol string is represented by the three things the code ever reads  *)
(* from it: the underlying name it contains, the strike digits before      *)
(* CE/PE, and its suffix (FUT, CE or PE).                                  *)
(***************************************************************************)
EXTENDS Integers, Sequences, FiniteSets, TLC

VARIABLES
    symbol_data_state,  \* gfdl_future.py: symbol -> price, price_prev, oi, oi_prev
    future_prices,      \* gfdl_future.py: underlying -> latest future price, 0 unknown
    channel,            \* alert texts posted to the Telegram chat, not yet handled by the flow bot
    ticks,              \* number of process_data calls so far
    accepted,           \* history: symbol -> a tick of it passed all three presence checks
    classified,         \* history: number of ticks that reached the calculations (line 331)
    last,               \* history: what the latest process_data call did
    alert_msg,          \* process_data: the text it is awaiting send_alert for, None if none
    history,            \* history: symbol -> its latest two accepted ticks, oldest first
    latest_future,      \* history: underlying -> price of its latest watched future tick above 0
    conn,               \* run_scanner: where its loop stands, and the history of its connection
    alerts_buffer,      \* turnover_flow_scanner.py: the parsed alerts of the open window
    summary_pc,         \* process_summary: "idle", or "sending" while awaiting send_message
    current_batch,      \* process_summary: the batch of the latest call
    report,             \* the report built by the latest process_summary call, NoReport if none
    recorded,           \* history: number of alerts appended to alerts_buffer
    flushed,            \* history: ids of the alerts taken into a batch, in order
    flushes,            \* number of process_summary calls so far
    trace,              \* history: the latest two buffer operations, oldest first
    call,               \* pure-function harness: the function applied and its arguments
    ret                 \* pure-function harness: the results obtained so far

scannerVars == <<symbol_data_state, future_prices, channel, ticks, accepted, classified, last,
                 alert_msg, history, latest_future, conn>>
flowVars == <<alerts_buffer, summary_pc, current_batch, report, recorded, flushed, flushes, trace>>
pureVars == <<call, ret>>
vars == <<symbol_data_state, future_prices, channel, ticks, accepted, classified, last,
          alert_msg, history, latest_future, conn, alerts_buffer, summary_pc, current_batch, report, recorded, flushed, flushes,
          trace, call, ret>>

----------------------------------------------------------------------------
(* Bounds of the model. *)

MaxTicks == 3

MaxMessages == 3

MaxFlushes == 3

MaxDelta == 2

MaxLots == 201

MaxOiChange == 1600

MaxConnections == 2

----------------------------------------------------------------------------
(* Optional values and small helpers. *)

None == <<>>

Some(v) == <<v>>

IsNone(x) == Len(x) = 0

Abs(n) == IF n < 0 THEN -n ELSE n

Fut(u) == [underlying |-> u, strike |-> 0, kind |-> "FUT"]

Opt(u, k, t) == [underlying |-> u, strike |-> k, kind |-> t]

----------------------------------------------------------------------------
(* gfdl_future.py: configuration. *)

SYMBOLS_TO_MONITOR == {Fut("SBIN"), Fut("HDFCBANK"), Fut("ICICIBANK"), Fut("BANKNIFTY")}

LOT_SIZES == [BANKNIFTY |-> 30, HDFCBANK |-> 550, ICICIBANK |-> 700, SBIN |-> 750]

DEFAULT_LOT_SIZE == 75

FUTURES_LOT_THRESHOLD == 50

TELEGRAM_CHAT_ID == "alerts"

\* "FUT" in symbol
IsFuture(symbol) == symbol.kind = "FUT"

\* the if/elif chain over the four names; None when no name is in the symbol
UnderlyingOf(symbol) ==
    IF symbol.underlying \in {"HDFCBANK", "ICICIBANK", "SBIN", "BANKNIFTY"}
    THEN Some(symbol.underlying)
    ELSE None

----------------------------------------------------------------------------
(* gfdl_future.py: core logic. *)

\* lots_from_oi_change without the abs: int() truncates towards zero
lots_from_oi_change_signed(symbol, oi_change) ==
    LET lot_size == IF symbol.underlying \in DOMAIN LOT_SIZES
                    THEN LOT_SIZES[symbol.underlying]
                    ELSE DEFAULT_LOT_SIZE
    IN  IF lot_size = 0 THEN 0
        ELSE IF oi_change < 0 THEN -(Abs(oi_change) \div lot_size)
        ELSE oi_change \div lot_size

\* lots_from_oi_change: the first LOT_SIZES name contained in the symbol decides
\* the lot size; int(abs(oi_change) / lot_size) truncates a non-negative quotient
lots_from_oi_change(symbol, oi_change) ==
    LET lot_size == IF symbol.underlying \in DOMAIN LOT_SIZES
                    THEN LOT_SIZES[symbol.underlying]
                    ELSE DEFAULT_LOT_SIZE
    IN  IF lot_size = 0 THEN 0 ELSE Abs(oi_change) \div lot_size

\* lot_bucket with > in place of >=
lot_bucket_exclusive(lots) ==
    IF lots > 200 THEN "EXTREME HIGH"
    ELSE IF lots > 150 THEN "EXTRA HIGH"
    ELSE IF lots > 100 THEN "HIGH"
    ELSE IF lots > 75 THEN "MEDIUM"
    ELSE IF lots > 1 THEN "LOW"
    ELSE "IGNORE"

lot_bucket(lots) ==
    IF lots >= 200 THEN "EXTREME HIGH"
    ELSE IF lots >= 150 THEN "EXTRA HIGH"
    ELSE IF lots >= 100 THEN "HIGH"
    ELSE IF lots >= 75 THEN "MEDIUM"
    ELSE IF lots >= 1 THEN "LOW"
    ELSE "IGNORE"

\* classify_option with the sign branches tested before the price-unchanged ones
classify_option_signs_first(oi_change, price_change, symbol) ==
    IF oi_change > 0
    THEN (IF price_change > 0 THEN "BUYER(LONG)" ELSE "WRITER(SHORT)")
    ELSE IF oi_change < 0
    THEN (IF price_change > 0 THEN "REMOVE FROM SHORT" ELSE "REMOVE FROM LONG")
    ELSE "Indecisive Movement"

\* classify_option: the symbol argument is never read
classify_option(oi_change, price_change, symbol) ==
    IF price_change = 0
    THEN (IF oi_change > 0 THEN "HEDGING"
          ELSE IF oi_change < 0 THEN "REMOVE FROM HEDGE"
          ELSE "Indecisive Movement")
    ELSE IF oi_change > 0
    THEN (IF price_change > 0 THEN "BUYER(LONG)" ELSE "WRITER(SHORT)")
    ELSE IF oi_change < 0
    THEN (IF price_change > 0 THEN "REMOVE FROM SHORT" ELSE "REMOVE FROM LONG")
    ELSE "Indecisive Movement"

\* the labelled fields and action phrases parse_alert looks for in a text
NoLabels == [SYMBOL |-> None, LOTS |-> None, PRICE |-> None,
             OI_CHANGE |-> None, FUTURE_PRICE |-> None]

\* format_alert_message, future branch: the text carries ACTION, SIZE, EXISTING OI,
\* OI delta, OI RoC, PRICE (an arrow) and TIME lines; none of them is a
\* "SYMBOL:", "LOTS:", "OI CHANGE:" or "FUTURE PRICE:" label, and "PRICE:" is
\* followed by no digit
format_alert_message(symbol, action, bucket, lots, state, oi_chg, oi_roc) ==
    LET price_chg == state.price - state.price_prev
        price_dir == IF price_chg > 0 THEN "up" ELSE IF price_chg < 0 THEN "down" ELSE "flat"
        product_name == IF symbol.underlying = "HDFCBANK" THEN "HDFCBANK"
                        ELSE IF symbol.underlying = "ICICIBANK" THEN "ICICI"
                        ELSE IF symbol.underlying = "SBIN" THEN "SBIN"
                        ELSE IF symbol.underlying = "BANKNIFTY" THEN "BANKNIFTY"
                        ELSE "UNKNOWN"
    IN  [chat_id |-> TELEGRAM_CHAT_ID,
         labels |-> NoLabels,
         price_label_first |-> TRUE,
         phrases |-> {},
         body |-> [product_name |-> product_name, kind |-> "FUTURE", action |-> action,
                   bucket |-> bucket, lots |-> lots, existing_oi |-> state.oi_prev,
                   oi_chg |-> oi_chg, oi_roc |-> oi_roc, price_dir |-> price_dir,
                   price |-> state.price]]

\* get_option_moneyness. The regex of line 176 finds the strike and CE/PE of every
\* option symbol of the model, so its except branch is not taken. The band test
\* abs(future_price - strike) <= future_price * 0.001 is taken in thousandths.
get_option_moneyness(symbol, fp) ==
    IF IsFuture(symbol) THEN "N/A"
    ELSE IF IsNone(UnderlyingOf(symbol)) THEN "N/A"
    ELSE
    LET future_price == fp[UnderlyingOf(symbol)[1]]
        strike_price == symbol.strike
        option_type == symbol.kind
    IN  IF future_price = 0 THEN "OTM"
        ELSE IF 1000 * Abs(future_price - strike_price) <= future_price THEN "ATM"
        ELSE IF (option_type = "CE" /\ strike_price < future_price)
                \/ (option_type = "PE" /\ strike_price > future_price)
        THEN "ITM"
        ELSE "OTM"

----------------------------------------------------------------------------
(* gfdl_future.py: process_data. *)

\* line 295: not symbol or symbol not in symbol_data_state
KnownSymbol(symbol) == ~IsNone(symbol) /\ symbol[1] \in DOMAIN symbol_data_state

\* lines 303-311 without the price > 0 test
UpdatedFuturePrices_any_price(fp, symbol, new_price) ==
    IF IsFuture(symbol) /\ ~IsNone(UnderlyingOf(symbol))
    THEN [fp EXCEPT ![UnderlyingOf(symbol)[1]] = new_price]
    ELSE fp

\* lines 303-311 keeping the highest price seen instead of the latest
UpdatedFuturePrices_keep_max(fp, symbol, new_price) ==
    IF IsFuture(symbol) /\ ~IsNone(UnderlyingOf(symbol))
       /\ new_price > fp[UnderlyingOf(symbol)[1]]
    THEN [fp EXCEPT ![UnderlyingOf(symbol)[1]] = new_price]
    ELSE fp

\* lines 303-311
UpdatedFuturePrices(fp, symbol, new_price) ==
    IF IsFuture(symbol) /\ ~IsNone(UnderlyingOf(symbol)) /\ new_price > 0
    THEN [fp EXCEPT ![UnderlyingOf(symbol)[1]] = new_price]
    ELSE fp

\* lines 320-321 without line 320: the previous values are never taken over
ShiftedState_keeps_prev(state, new_price, new_oi) ==
    [price |-> new_price, price_prev |-> state.price_prev,
     oi |-> new_oi, oi_prev |-> state.oi_prev]

\* lines 320-321
ShiftedState(state, new_price, new_oi) ==
    [price |-> new_price, price_prev |-> state.price,
     oi |-> new_oi, oi_prev |-> state.oi]

\* line 323 left out: no tick is ever taken as the baseline
IsBaseline_never(state) == FALSE

\* line 323
IsBaseline(state) == state.oi_prev = 0

\* lines 327-329 returning only when the price is unchanged as well
IsUnchanged_price_too(state) ==
    state.oi - state.oi_prev = 0 /\ state.price - state.price_prev = 0

\* lines 327-329: oi_chg == 0
IsUnchanged(state) == state.oi - state.oi_prev = 0

\* lines 334-337: the quotient (oi_chg / oi_prev) * 100 as a fraction
oi_roc_of(oi_chg, oi_prev) ==
    IF oi_prev = 0 THEN [num |-> 0, den |-> 1]
    ELSE [num |-> oi_chg * 100, den |-> oi_prev]

\* lines 346-350 with >= in place of >
AlertConditionMet_at_threshold(symbol, lots) ==
    IF IsFuture(symbol) THEN lots >= FUTURES_LOT_THRESHOLD ELSE FALSE

\* lines 343-350: options alerts are disabled
AlertConditionMet(symbol, lots) ==
    IF IsFuture(symbol) THEN lots > FUTURES_LOT_THRESHOLD ELSE FALSE

NoEvent == [oi_chg |-> 0, price_chg |-> 0, oi_roc |-> [num |-> 0, den |-> 1], lots |-> 0,
            bucket |-> "IGNORE", action |-> "", alerted |-> FALSE]

\* what one call of process_data does for the packet `data`: the new state maps,
\* the alert text handed to send_alert (None if none) and the history record
ProcessResult(data) ==
    LET symbol == data.InstrumentIdentifier
        new_price == data.LastTradePrice
        new_oi == data.OpenInterest
        drop(why, fp) ==
            [sds |-> symbol_data_state, fp |-> fp, alert |-> None,
             last |-> [symbol |-> symbol, outcome |-> why, first |-> FALSE,
                       price |-> IF why = "no_oi" THEN new_price ELSE None,
                       oi |-> None, oi_before |-> 0, event |-> NoEvent]]
    IN  IF ~KnownSymbol(symbol) THEN drop("no_symbol", future_prices)
        ELSE IF IsNone(new_price) THEN drop("no_price", future_prices)
        ELSE
        LET fp == UpdatedFuturePrices(future_prices, symbol[1], new_price[1])
        IN  IF IsNone(new_oi) THEN drop("no_oi", fp)
            ELSE
            LET state == ShiftedState(symbol_data_state[symbol[1]], new_price[1], new_oi[1])
                sds == [symbol_data_state EXCEPT ![symbol[1]] = state]
                oi_chg == state.oi - state.oi_prev
                price_chg == state.price - state.price_prev
                oi_roc == oi_roc_of(oi_chg, state.oi_prev)
                lots == lots_from_oi_change(symbol[1], oi_chg)
                bucket == lot_bucket(lots)
                action == classify_option(oi_chg, price_chg, symbol[1])
                alerting == AlertConditionMet(symbol[1], lots) /\ bucket # "IGNORE"
                done(why, ev, alert) ==
                    [sds |-> sds, fp |-> fp, alert |-> alert,
                     last |-> [symbol |-> symbol, outcome |-> why,
                               first |-> ~accepted[symbol[1]],
                               price |-> new_price, oi |-> new_oi,
                               oi_before |-> state.oi_prev, event |-> ev]]
            IN  IF IsBaseline(state) THEN done("baseline", NoEvent, None)
                ELSE IF IsUnchanged(state) THEN done("unchanged", NoEvent, None)
                ELSE done("classified",
                          [oi_chg |-> oi_chg, price_chg |-> price_chg, oi_roc |-> oi_roc,
                           lots |-> lots, bucket |-> bucket,
                           action |-> IF alerting THEN action ELSE "",
                           alerted |-> alerting],
                          IF alerting
                          THEN Some(format_alert_message(symbol[1], action, bucket, lots,
                                                         state, oi_chg, oi_roc))
                          ELSE None)

Accepted(outcome) == outcome \in {"baseline", "unchanged", "classified"}

\* the loop of run_scanner takes the next packet as a task, without awaiting the
\* call it made for the previous one
FeedLoopReady_not_awaited == TRUE

\* lines 386-390: the loop awaits process_data(data) before it takes the next
\* packet, so no call is in flight when one starts
FeedLoopReady == IsNone(alert_msg)

\* the latest two accepted ticks of a symbol after one more
Remembered(h, tick) == IF Len(h) = 0 THEN <<tick>> ELSE <<h[Len(h)], tick>>

\* one tick: process_data(data) up to its only await, the send_alert of line 358.
\* The state update, the calculations and the formatting of the text run in one
\* step of the event loop; a call that alerts then awaits the delivery.
process_data(data) ==
    /\ FeedLoopReady
    /\ ticks < MaxTicks
    /\ ticks' = ticks + 1
    /\ LET r == ProcessResult(data)
           symbol == data.InstrumentIdentifier
           new_price == data.LastTradePrice
       IN  /\ symbol_data_state' = r.sds
           /\ future_prices' = r.fp
           /\ last' = r.last
           /\ alert_msg' = IF IsNone(r.alert) THEN alert_msg ELSE r.alert
           /\ classified' = IF r.last.outcome = "classified" THEN classified + 1 ELSE classified
           /\ accepted' = IF Accepted(r.last.outcome)
                          THEN [accepted EXCEPT ![symbol[1]] = TRUE]
                          ELSE accepted
           /\ history' = IF Accepted(r.last.outcome)
                         THEN [history EXCEPT ![symbol[1]] =
                                  Remembered(@, [price |-> new_price[1],
                                                 oi |-> data.OpenInterest[1]])]
                         ELSE history
           /\ latest_future' =
                 IF /\ ~IsNone(symbol)
                    /\ symbol[1] \in SYMBOLS_TO_MONITOR
                    /\ symbol[1].kind = "FUT"
                    /\ ~IsNone(new_price)
                    /\ new_price[1] > 0
                 THEN [latest_future EXCEPT ![symbol[1].underlying] = new_price[1]]
                 ELSE latest_future
    /\ UNCHANGED channel
    /\ UNCHANGED flowVars
    /\ UNCHANGED pureVars

\* lines 84-106 and 358: the awaited send_alert returns. send_telegram swallows a
\* failed delivery, so the text has reached the chat or it has not.
send_alert ==
    /\ ~IsNone(alert_msg)
    /\ \E delivered \in BOOLEAN :
          channel' = IF delivered THEN Append(channel, alert_msg[1]) ELSE channel
    /\ alert_msg' = None
    /\ UNCHANGED <<symbol_data_state, future_prices, ticks, accepted, classified, last,
                   history, latest_future, conn>>
    /\ UNCHANGED flowVars
    /\ UNCHANGED pureVars

----------------------------------------------------------------------------
(* turnover_flow_scanner.py: configuration and pure helpers. *)

TARGET_CHANNEL_ID == "alerts"

TRACK_SYMBOLS == <<"BANKNIFTY", "HDFCBANK", "ICICIBANK">>

ATM_RANGE == [BANKNIFTY |-> 100, HDFCBANK |-> 5, ICICIBANK |-> 10]

FUTURE_LOT_VALUE == 100000

OptionActions == <<"CALL_WRITER", "PUT_WRITER", "CALL_BUY", "PUT_BUY",
                   "CALL_SC", "PUT_SC", "CALL_UNW", "PUT_UNW">>

FutureActions == <<"FUTURE_BUY", "FUTURE_SELL", "FUTURE_SC", "FUTURE_UNW">>

Range(f) == {f[i] : i \in DOMAIN f}

\* a number below 100 as two digits, below 1000 as three
Digits2(n) == IF n < 10 THEN "0" \o ToString(n) ELSE ToString(n)

Digits3(n) == IF n < 100 THEN "0" \o Digits2(n) ELSE ToString(n)

RECURSIVE Grouped(_)
\* the format spec ",.0f" for a whole number n >= 0
Grouped(n) ==
    IF n < 1000 THEN ToString(n)
    ELSE Grouped(n \div 1000) \o "," \o Digits3(n % 1000)

\* the format spec ".2f" for n / unit, n >= 0: the quotient rounded to the nearest
\* hundredth. For the values of the model n / unit is never halfway between two
\* hundredths, where the result would depend on the binary float.
Fixed2(n, unit) ==
    LET hundredths == 100 * (n \div unit) + (200 * (n % unit) + unit) \div (2 * unit)
    IN  ToString(hundredths \div 100) \o "." \o Digits2(hundredths % 100)

\* format_indian_value with > in place of >= in both tier tests
format_indian_value_exclusive(val) ==
    LET abs_val == Abs(val)
        sign == IF val < 0 THEN "-" ELSE ""
    IN  IF abs_val > 10000000 THEN sign \o Fixed2(abs_val, 10000000) \o " Cr"
        ELSE IF abs_val > 100000 THEN sign \o Fixed2(abs_val, 100000) \o " L"
        ELSE sign \o Grouped(abs_val)

\* format_indian_value for a whole number
format_indian_value(val) ==
    LET abs_val == Abs(val)
        sign == IF val < 0 THEN "-" ELSE ""
    IN  IF abs_val >= 10000000 THEN sign \o Fixed2(abs_val, 10000000) \o " Cr"
        ELSE IF abs_val >= 100000 THEN sign \o Fixed2(abs_val, 100000) \o " L"
        ELSE sign \o Grouped(abs_val)

\* classify_strike; Python's None result is None, a zone z is Some(z)
classify_strike(symbol, strike, option_type, future_price) ==
    LET width == IF symbol \in DOMAIN ATM_RANGE THEN ATM_RANGE[symbol] ELSE 0
    IN  IF Abs(strike - future_price) <= width THEN Some("ATM")
        ELSE IF option_type = "CE"
        THEN (IF strike < future_price - width THEN Some("ITM") ELSE Some("OTM"))
        ELSE IF option_type = "PE"
        THEN (IF strike > future_price + width THEN Some("ITM") ELSE Some("OTM"))
        ELSE None

\* lines 105-118: the first phrase of the chain found in the text
ActionType(phrases, is_option, option_type) ==
    IF "CALL WRITER" \in phrases THEN Some("CALL_WRITER")
    ELSE IF "PUT WRITER" \in phrases THEN Some("PUT_WRITER")
    ELSE IF "CALL BUY" \in phrases THEN Some("CALL_BUY")
    ELSE IF "PUT BUY" \in phrases THEN Some("PUT_BUY")
    ELSE IF "SHORT COVERING" \in phrases
    THEN (IF is_option
          THEN (IF option_type = "CE" THEN Some("CALL_SC") ELSE Some("PUT_SC"))
          ELSE Some("FUTURE_SC"))
    ELSE IF "LONG UNWINDING" \in phrases
    THEN (IF is_option
          THEN (IF option_type = "CE" THEN Some("CALL_UNW") ELSE Some("PUT_UNW"))
          ELSE Some("FUTURE_UNW"))
    ELSE IF "FUTURE BUY" \in phrases THEN Some("FUTURE_BUY")
    ELSE IF "FUTURE SELL" \in phrases THEN Some("FUTURE_SELL")
    ELSE None

\* parse_alert: None, or Some(the parsed alert). price_match (line 67) is the
\* leftmost "PRICE:" followed by a number, and "FUTURE PRICE: n" contains one:
\* the price is the number of the PRICE label only when that label comes first
\* or there is no FUTURE PRICE label.
parse_alert(text) ==
    IF IsNone(text.labels.SYMBOL) \/ IsNone(text.labels.LOTS) THEN None
    ELSE
    LET symbol_full == text.labels.SYMBOL[1]
        lots == text.labels.LOTS[1]
        price == IF ~IsNone(text.labels.PRICE) /\ (text.price_label_first
                                                   \/ IsNone(text.labels.FUTURE_PRICE))
                 THEN text.labels.PRICE[1]
                 ELSE IF ~IsNone(text.labels.FUTURE_PRICE)
                 THEN text.labels.FUTURE_PRICE[1]
                 ELSE 0
        future_price == text.labels.FUTURE_PRICE
        oi_qty == IF IsNone(text.labels.OI_CHANGE) THEN 0 ELSE Abs(text.labels.OI_CHANGE[1])
        opt_match == symbol_full.kind \in {"CE", "PE"}
        known_future == ~IsNone(future_price) /\ future_price[1] # 0
        zone == IF opt_match /\ known_future
                THEN classify_strike(symbol_full.underlying, symbol_full.strike,
                                     symbol_full.kind, future_price[1])
                ELSE None
        turnover == IF opt_match THEN oi_qty * price ELSE lots * FUTURE_LOT_VALUE
        action_type == ActionType(text.phrases, opt_match, symbol_full.kind)
    IN  IF symbol_full.underlying \notin Range(TRACK_SYMBOLS) THEN None
        ELSE IF IsNone(action_type) THEN None
        ELSE Some([symbol |-> symbol_full.underlying, turnover |-> turnover,
                   action_type |-> action_type[1], zone |-> zone,
                   current_future |-> future_price])

----------------------------------------------------------------------------
(* turnover_flow_scanner.py: message_handler and process_summary. *)

\* message_handler: the whole handler runs without an await. An appended alert
\* also gets the next id, which only the history reads.
message_handler(msg) ==
    LET parsed == parse_alert(msg)
    IN  IF msg.chat_id = TARGET_CHANNEL_ID /\ ~IsNone(parsed)
        THEN /\ alerts_buffer' = Append(alerts_buffer, [alert |-> parsed[1], id |-> recorded + 1])
             /\ recorded' = recorded + 1
             /\ trace' = <<trace[2], "record">>
             /\ UNCHANGED <<summary_pc, current_batch, report, flushed, flushes>>
        ELSE UNCHANGED flowVars

\* the key an alert is accumulated under: its zone, or "TOTAL" (lines 156-159)
ZoneKey(alert) == IF IsNone(alert.zone) THEN "TOTAL" ELSE alert.zone[1]

RECURSIVE DataCell(_, _, _, _)
\* data[sym][act][z] after the loop of lines 148-159 over `batch`
DataCell(batch, sym, act, z) ==
    IF Len(batch) = 0 THEN 0
    ELSE LET a == Head(batch).alert
         IN  (IF a.symbol = sym /\ a.action_type = act /\ ZoneKey(a) = z
              THEN a.turnover ELSE 0)
             + DataCell(Tail(batch), sym, act, z)

RECURSIVE LastKnownFuture(_, _)
\* last_known_future.get(sym, "N/A") after the loop: None stands for "N/A"
LastKnownFuture(batch, sym) ==
    IF Len(batch) = 0 THEN None
    ELSE LET a == batch[Len(batch)].alert
         IN  IF a.symbol = sym /\ ~IsNone(a.current_future) /\ a.current_future[1] # 0
             THEN a.current_future
             ELSE LastKnownFuture(SubSeq(batch, 1, Len(batch) - 1), sym)

\* lines 165-208: one section per tracked symbol present in data; each cell is
\* the number handed to format_indian_value
BuildReport(batch) ==
    LET present == {s \in Range(TRACK_SYMBOLS) :
                        \E i \in DOMAIN batch : batch[i].alert.symbol = s}
    IN  [s \in present |->
            [fut |-> LastKnownFuture(batch, s),
             options |-> [a \in Range(OptionActions) |->
                            [ITM |-> DataCell(batch, s, a, "ITM"),
                             ATM |-> DataCell(batch, s, a, "ATM"),
                             OTM |-> DataCell(batch, s, a, "OTM"),
                             TOT |-> DataCell(batch, s, a, "ITM")
                                     + DataCell(batch, s, a, "ATM")
                                     + DataCell(batch, s, a, "OTM")]],
             futures |-> [a \in Range(FutureActions) |-> DataCell(batch, s, a, "TOTAL")]]]

\* line 139 without the early return
EmptyBuffer_never(buffer) == FALSE

\* line 139: not alerts_buffer
EmptyBuffer(buffer) == Len(buffer) = 0

\* line 142 left out: the buffer keeps its alerts
ClearedBuffer_kept(buffer) == buffer

\* line 142 dropping all but the newest alert
ClearedBuffer_keeps_newest(buffer) ==
    IF Len(buffer) > 1 THEN <<buffer[Len(buffer)]>> ELSE <<>>

\* line 142: alerts_buffer.clear()
ClearedBuffer(buffer) == <<>>

RECURSIVE Ids(_)
Ids(batch) == IF Len(batch) = 0 THEN <<>> ELSE <<Head(batch).id>> \o Ids(Tail(batch))

\* process_summary up to its only await (line 208): the early return, the copy
\* and clear of the buffer, the accumulation and the building of the message all
\* run in one step of the event loop. The job queue starts no second run of the
\* job while one is still awaiting.
process_summary ==
    /\ summary_pc = "idle"
    /\ flushes < MaxFlushes
    /\ flushes' = flushes + 1
    /\ trace' = <<trace[2], "flush">>
    /\ IF EmptyBuffer(alerts_buffer)
       THEN /\ report' = None
            /\ current_batch' = <<>>
            /\ UNCHANGED <<alerts_buffer, summary_pc, flushed>>
       ELSE /\ current_batch' = alerts_buffer
            /\ alerts_buffer' = ClearedBuffer(alerts_buffer)
            /\ report' = Some(BuildReport(alerts_buffer))
            /\ flushed' = flushed \o Ids(alerts_buffer)
            /\ summary_pc' = "sending"
    /\ UNCHANGED recorded
    /\ UNCHANGED scannerVars
    /\ UNCHANGED pureVars

\* line 208: the awaited send_message returns (or raises into the job queue)
send_message ==
    /\ summary_pc = "sending"
    /\ summary_pc' = "idle"
    /\ UNCHANGED <<alerts_buffer, current_batch, report, recorded, flushed, flushes, trace>>
    /\ UNCHANGED scannerVars
    /\ UNCHANGED pureVars

----------------------------------------------------------------------------
(* The two programs, and the inputs they are driven with. *)

TickSymbols == {None, Some(Fut("BANKNIFTY")), Some(Fut("SBIN")),
                Some(Opt("BANKNIFTY", 50000, "CE"))}

TickPrices == {None, Some(0), Some(100), Some(105)}

TickOIs == {None, Some(0), Some(1000), Some(2500), Some(2530)}

Ticks == [InstrumentIdentifier : TickSymbols, LastTradePrice : TickPrices,
          OpenInterest : TickOIs]

Text(chat, sym, lots, price, oi, fut, phrases) ==
    [chat_id |-> chat,
     labels |-> [SYMBOL |-> sym, LOTS |-> lots, PRICE |-> price,
                 OI_CHANGE |-> oi, FUTURE_PRICE |-> fut],
     price_label_first |-> TRUE,
     phrases |-> phrases,
     body |-> <<>>]

\* the same text with its FUTURE PRICE line above its PRICE line
FutureFirst(text) == [text EXCEPT !.price_label_first = FALSE]

\* alert texts other posters put on the flow bot's channel
FlowTexts ==
    { Text("alerts", Some(Opt("BANKNIFTY", 50000, "CE")), Some(10), Some(2), Some(300),
           Some(50000), {"CALL BUY"}),
      Text("alerts", Some(Opt("BANKNIFTY", 50000, "CE")), Some(10), Some(2), Some(-300),
           None, {"CALL BUY"}),
      Text("alerts", Some(Opt("HDFCBANK", 1010, "PE")), Some(4), Some(3), Some(2200),
           Some(1000), {"PUT WRITER"}),
      FutureFirst(Text("alerts", Some(Opt("HDFCBANK", 1010, "PE")), Some(4), Some(3),
                       Some(2200), Some(1000), {"PUT WRITER"})),
      Text("alerts", Some(Fut("BANKNIFTY")), Some(3), None, None, None, {"FUTURE BUY"}),
      Text("alerts", Some(Fut("HDFCBANK")), Some(2), None, None, None, {"SHORT COVERING"}),
      Text("alerts", Some(Fut("SBIN")), Some(2), None, None, None, {"FUTURE SELL"}),
      Text("alerts", Some(Fut("BANKNIFTY")), Some(3), None, None, None, {}),
      Text("alerts", None, None, None, None, None, {}),
      Text("other", Some(Fut("BANKNIFTY")), Some(3), None, None, None, {"FUTURE BUY"}) }

\* run_scanner inside its async-for loop (line 386): connected, authenticated,
\* subscribed, no packet received yet
LiveConnection ==
    [pc |-> "live", attempt |-> 1, authenticated |-> TRUE, subscribed |-> TRUE,
     received |-> 0, failed |-> 0]

\* lines 66-79: the module state as the import leaves it
InitTables ==
    /\ symbol_data_state = [s \in SYMBOLS_TO_MONITOR |->
                              [price |-> 0, price_prev |-> 0, oi |-> 0, oi_prev |-> 0]]
    /\ future_prices = [BANKNIFTY |-> 0, HDFCBANK |-> 0, ICICIBANK |-> 0, SBIN |-> 0]
    /\ channel = <<>>
    /\ ticks = 0
    /\ accepted = [s \in SYMBOLS_TO_MONITOR |-> FALSE]
    /\ classified = 0
    /\ last = [symbol |-> None, outcome |-> "none", first |-> FALSE, price |-> None,
               oi |-> None, oi_before |-> 0, event |-> NoEvent]
    /\ alert_msg = None
    /\ history = [s \in SYMBOLS_TO_MONITOR |-> <<>>]
    /\ latest_future = [BANKNIFTY |-> 0, HDFCBANK |-> 0, ICICIBANK |-> 0, SBIN |-> 0]

InitScanner ==
    /\ InitTables
    /\ conn = LiveConnection

InitFlow ==
    /\ alerts_buffer = <<>>
    /\ summary_pc = "idle"
    /\ current_batch = <<>>
    /\ report = None
    /\ recorded = 0
    /\ flushed = <<>>
    /\ flushes = 0
    /\ trace = <<"none", "none">>

NoCall == [fn |-> "none"]

NoRet == [classify_option |-> None, classify_strike |-> None,
          get_option_moneyness |-> None, lot_bucket |-> None,
          lots_from_oi_change |-> None, parse_alert |-> None,
          format_indian_value |-> None]

Init ==
    /\ InitScanner
    /\ InitFlow
    /\ call = NoCall
    /\ ret = NoRet

\* the feed delivers one RealtimeResult packet (run_scanner, lines 386-390)
Tick ==
    /\ \E data \in Ticks : process_data(data)
    /\ UNCHANGED conn

\* Telegram hands the oldest undelivered scanner alert to the flow bot
Deliver ==
    /\ Len(channel) > 0
    /\ message_handler(Head(channel))
    /\ channel' = Tail(channel)
    /\ UNCHANGED <<symbol_data_state, future_prices, ticks, accepted, classified, last,
                   alert_msg, history, latest_future, conn>>
    /\ UNCHANGED pureVars

\* another poster's alert text reaches the flow bot
Post ==
    /\ recorded < MaxMessages
    /\ \E msg \in FlowTexts : message_handler(msg)
    /\ UNCHANGED scannerVars
    /\ UNCHANGED pureVars

Next == Tick \/ send_alert \/ Deliver

Spec == Init /\ [][Next]_vars

NextFlow == Post \/ process_summary \/ send_message

SpecFlow == Init /\ [][NextFlow]_vars

\* the texts about one underlying: recorded with and without a zone, recorded as
\* a future, not parsed, and of another chat
TimerTexts ==
    {t \in FlowTexts : ~IsNone(t.labels.SYMBOL)
                          /\ t.labels.SYMBOL[1].underlying = "BANKNIFTY"}

\* a text reaches the flow bot while the repeating job still has a run ahead:
\* the timer of line 216 has no last firing, so within the bounds of the model
\* no text arrives after the last run
PostBeforeNextRun ==
    /\ flushes < MaxFlushes
    /\ recorded < MaxMessages
    /\ \E msg \in TimerTexts : message_handler(msg)
    /\ UNCHANGED scannerVars
    /\ UNCHANGED pureVars

NextFlowFair == PostBeforeNextRun \/ process_summary \/ send_message

\* line 216: the job queue runs process_summary every 120 s, whether or not
\* messages arrive, and the awaited send_message of line 208 returns or raises
SpecFlowFair ==
    /\ Init
    /\ [][NextFlowFair]_vars
    /\ WF_vars(process_summary)
    /\ WF_vars(send_message)

----------------------------------------------------------------------------
(* gfdl_future.py: run_scanner, the connection loop around process_data. *)

\* a field value of a type that numbers are neither ordered with nor subtracted
\* from (a string): a number that no packet carries as a price or open interest
BadValue == -1

IsBad(v) == v = BadValue

\* the handlers of run_scanner left out: an exception leaves run_scanner
AfterFailure_unhandled(where) == "stopped"

\* where the loop of run_scanner stands after an exception: the handler of lines
\* 391-394 logs and takes the next message, those of lines 396-401 log and
\* sleep before the while loop connects again
AfterFailure(where) == IF where = "message" THEN "live" ELSE "sleep"

\* a new connection clears the module state
KeptAcrossConnect_reset(table, initial) == initial

\* lines 362-364: connecting writes neither symbol_data_state nor future_prices
KeptAcrossConnect(table, initial) == table

\* line 310: new_price > 0 raises TypeError for a price that is no number; every
\* watched symbol is a future, so the comparison is reached
RaisesAtPrice(data) ==
    /\ KnownSymbol(data.InstrumentIdentifier)
    /\ ~IsNone(data.LastTradePrice)
    /\ IsFuture(data.InstrumentIdentifier[1])
    /\ ~IsNone(UnderlyingOf(data.InstrumentIdentifier[1]))
    /\ IsBad(data.LastTradePrice[1])

\* line 327: state["oi"] - state["oi_prev"] raises TypeError when either is no
\* number; it is reached unless the stored open interest equals 0 (line 323)
RaisesAtDiff(data) ==
    /\ KnownSymbol(data.InstrumentIdentifier)
    /\ ~IsNone(data.LastTradePrice)
    /\ ~RaisesAtPrice(data)
    /\ ~IsNone(data.OpenInterest)
    /\ LET old == symbol_data_state[data.InstrumentIdentifier[1]].oi
       IN  old # 0 /\ (IsBad(old) \/ IsBad(data.OpenInterest[1]))

Raises(data) == RaisesAtPrice(data) \/ RaisesAtDiff(data)

RaisedRecord(data) ==
    [symbol |-> data.InstrumentIdentifier, outcome |-> "raised", first |-> FALSE,
     price |-> None, oi |-> None, oi_before |-> 0, event |-> NoEvent]

\* process_data(data) up to the exception it raises: nothing is written before
\* line 310, the future price and the shifted state are written before line 327
process_data_raises(data) ==
    LET symbol == data.InstrumentIdentifier[1]
        new_price == data.LastTradePrice[1]
    IN  /\ FeedLoopReady
        /\ ticks < MaxTicks
        /\ ticks' = ticks + 1
        /\ last' = RaisedRecord(data)
        /\ IF RaisesAtPrice(data)
           THEN UNCHANGED <<symbol_data_state, future_prices, accepted, history,
                            latest_future>>
           ELSE /\ future_prices' = UpdatedFuturePrices(future_prices, symbol, new_price)
                /\ symbol_data_state' =
                      [symbol_data_state EXCEPT ![symbol] =
                          ShiftedState(@, new_price, data.OpenInterest[1])]
                /\ accepted' = [accepted EXCEPT ![symbol] = TRUE]
                /\ history' = [history EXCEPT ![symbol] =
                                  Remembered(@, [price |-> new_price,
                                                 oi |-> data.OpenInterest[1]])]
                /\ latest_future' = IF new_price > 0
                                    THEN [latest_future EXCEPT ![symbol.underlying] = new_price]
                                    ELSE latest_future
        /\ UNCHANGED <<channel, classified, alert_msg>>
        /\ UNCHANGED flowVars
        /\ UNCHANGED pureVars

\* the packets of the feed in the connection model: one watched future, with a
\* price or an open interest that may be no number
ConnTicks ==
    [InstrumentIdentifier : {Some(Fut("BANKNIFTY"))},
     LastTradePrice : {Some(100), Some(BadValue)},
     OpenInterest : {Some(1000), Some(2530), Some(BadValue)}]

InitialSymbolState ==
    [s \in SYMBOLS_TO_MONITOR |-> [price |-> 0, price_prev |-> 0, oi |-> 0, oi_prev |-> 0]]

InitialFuturePrices == [BANKNIFTY |-> 0, HDFCBANK |-> 0, ICICIBANK |-> 0, SBIN |-> 0]

\* run_scanner at the top of its while loop, before the first connect
NotConnected ==
    [pc |-> "connect", attempt |-> 0, authenticated |-> FALSE, subscribed |-> FALSE,
     received |-> 0, failed |-> 0]

\* the connection is left (the async with block exits) and the loop goes to pc
Disconnected(c, pc) ==
    [c EXCEPT !.pc = pc, !.authenticated = FALSE, !.subscribed = FALSE]

\* the variables process_data and send_alert write besides the two tables
tickVars == <<channel, ticks, accepted, classified, last, alert_msg, history, latest_future>>

\* line 364: websockets.connect returns a connection or raises. The attempts are
\* counted up to MaxConnections.
connect ==
    /\ conn.pc = "connect"
    /\ \E ok \in BOOLEAN :
          LET attempt == IF conn.attempt < MaxConnections
                         THEN conn.attempt + 1
                         ELSE conn.attempt
          IN  conn' = IF ok
                      THEN [NotConnected EXCEPT !.pc = "auth", !.attempt = attempt]
                      ELSE [NotConnected EXCEPT !.pc = AfterFailure("connect"),
                                                !.attempt = attempt]
    /\ symbol_data_state' = KeptAcrossConnect(symbol_data_state, InitialSymbolState)
    /\ future_prices' = KeptAcrossConnect(future_prices, InitialFuturePrices)
    /\ UNCHANGED tickVars
    /\ UNCHANGED flowVars
    /\ UNCHANGED pureVars

\* lines 367-374: the Authenticate request and its response. A response without
\* Complete sleeps 30 s and continues the while loop; a closed connection or an
\* unreadable response raises into the handlers of lines 396-401.
authenticate ==
    /\ conn.pc = "auth"
    /\ \E response \in {"complete", "refused", "raised"} :
          conn' = CASE response = "complete" ->
                         [conn EXCEPT !.pc = "subscribe", !.authenticated = TRUE]
                    [] response = "refused" -> Disconnected(conn, "sleep")
                    [] response = "raised" -> Disconnected(conn, AfterFailure("auth"))
    /\ UNCHANGED <<symbol_data_state, future_prices>>
    /\ UNCHANGED tickVars
    /\ UNCHANGED flowVars
    /\ UNCHANGED pureVars

\* lines 378-382: one SubscribeRealtime request per watched symbol
subscribe ==
    /\ conn.pc = "subscribe"
    /\ \E ok \in BOOLEAN :
          conn' = IF ok
                  THEN [conn EXCEPT !.pc = "announce", !.subscribed = TRUE]
                  ELSE Disconnected(conn, AfterFailure("subscribe"))
    /\ UNCHANGED <<symbol_data_state, future_prices>>
    /\ UNCHANGED tickVars
    /\ UNCHANGED flowVars
    /\ UNCHANGED pureVars

\* line 384: the awaited send_alert of the LIVE text returns, delivered or not
\* (send_telegram swallows a failure). The text is no alert: it has no SYMBOL or
\* LOTS label, so it is left out of the channel.
announce ==
    /\ conn.pc = "announce"
    /\ conn' = [conn EXCEPT !.pc = "live"]
    /\ UNCHANGED <<symbol_data_state, future_prices>>
    /\ UNCHANGED tickVars
    /\ UNCHANGED flowVars
    /\ UNCHANGED pureVars

\* lines 386-394: the loop takes the next RealtimeResult packet and awaits
\* process_data(data) inside try/except
receive ==
    /\ conn.pc = "live"
    /\ \E data \in ConnTicks :
          \/ /\ ~Raises(data)
             /\ process_data(data)
             /\ conn' = [conn EXCEPT !.received = @ + 1]
          \/ /\ Raises(data)
             /\ process_data_raises(data)
             /\ conn' = [conn EXCEPT !.received = @ + 1, !.failed = @ + 1,
                                     !.pc = AfterFailure("message")]

\* the connection closes while the loop waits for a packet: a normal closure ends
\* the async for and the while loop connects again at once, any other raises
\* ConnectionClosed into the handler of lines 396-398
close ==
    /\ conn.pc = "live"
    /\ FeedLoopReady
    /\ \E normal \in BOOLEAN :
          conn' = IF normal
                  THEN Disconnected(conn, "connect")
                  ELSE Disconnected(conn, AfterFailure("closed"))
    /\ UNCHANGED <<symbol_data_state, future_prices>>
    /\ UNCHANGED tickVars
    /\ UNCHANGED flowVars
    /\ UNCHANGED pureVars

\* lines 373, 398, 401: asyncio.sleep returns and the while loop starts over
wake ==
    /\ conn.pc = "sleep"
    /\ conn' = [conn EXCEPT !.pc = "connect"]
    /\ UNCHANGED <<symbol_data_state, future_prices>>
    /\ UNCHANGED tickVars
    /\ UNCHANGED flowVars
    /\ UNCHANGED pureVars

InitConn ==
    /\ InitTables
    /\ conn = NotConnected
    /\ InitFlow
    /\ call = NoCall
    /\ ret = NoRet

NextConn ==
    \/ connect
    \/ authenticate
    \/ subscribe
    \/ announce
    \/ receive
    \/ send_alert
    \/ close
    \/ wake

\* asyncio.sleep returns after its delay, so a sleeping loop wakes
SpecConn == InitConn /\ [][NextConn]_vars /\ WF_vars(wake)

----------------------------------------------------------------------------
(* The pure functions, applied to arguments drawn at the start. *)

MoneynessCases ==
    [underlying : {"BANKNIFTY"}, future_price : {0, 50000},
     strike : {49800, 49900, 49920, 50000, 50080, 50100, 50200},
     option_type : {"CE", "PE"}]
    \cup
    [underlying : {"HDFCBANK"}, future_price : {0, 1000},
     strike : {990, 995, 999, 1000, 1001, 1005, 1010},
     option_type : {"CE", "PE"}]

\* one symbol per LOT_SIZES name and one that contains none of them
LotSymbols == {Fut("BANKNIFTY"), Fut("HDFCBANK"), Fut("ICICIBANK"), Fut("SBIN"),
               Fut("RELIANCE")}

\* turnovers around the two tier limits, and a negative one
FormatCases == {0, 7, 999, 1000, 4321, 99999, 100000, 100001, 250000, 1234567,
                9999999, 10000000, 12345678, 987654321, -4321, -250000}

PureCalls ==
    {[fn |-> "classify_option", oi_change |-> o, price_change |-> p] :
        o \in -MaxDelta..MaxDelta, p \in -MaxDelta..MaxDelta}
    \cup
    {[fn |-> "moneyness", underlying |-> c.underlying, strike |-> c.strike,
      option_type |-> c.option_type, future_price |-> c.future_price] :
        c \in MoneynessCases}
    \cup
    {[fn |-> "lot_bucket", lots |-> n] : n \in -1..MaxLots}
    \cup
    {[fn |-> "lots_from_oi_change", symbol |-> sym, oi_change |-> d] :
        sym \in LotSymbols, d \in -MaxOiChange..MaxOiChange}
    \cup
    {[fn |-> "parse_alert", text |-> t] : t \in FlowTexts}
    \cup
    {[fn |-> "format_indian_value", val |-> v] : v \in FormatCases}

InitPure ==
    /\ InitScanner
    /\ InitFlow
    /\ call \in PureCalls
    /\ ret = NoRet

apply_classify_option ==
    /\ call.fn = "classify_option"
    /\ IsNone(ret.classify_option)
    /\ ret' = [ret EXCEPT !.classify_option =
                  Some(classify_option(call.oi_change, call.price_change, Fut("SBIN")))]
    /\ UNCHANGED <<call, scannerVars, flowVars>>

apply_classify_strike ==
    /\ call.fn = "moneyness"
    /\ IsNone(ret.classify_strike)
    /\ ret' = [ret EXCEPT !.classify_strike =
                  Some(classify_strike(call.underlying, call.strike, call.option_type,
                                       call.future_price))]
    /\ UNCHANGED <<call, scannerVars, flowVars>>

apply_get_option_moneyness ==
    /\ call.fn = "moneyness"
    /\ IsNone(ret.get_option_moneyness)
    /\ ret' = [ret EXCEPT !.get_option_moneyness =
                  Some(get_option_moneyness(
                          Opt(call.underlying, call.strike, call.option_type),
                          [future_prices EXCEPT ![call.underlying] = call.future_price]))]
    /\ UNCHANGED <<call, scannerVars, flowVars>>

apply_lot_bucket ==
    /\ call.fn = "lot_bucket"
    /\ IsNone(ret.lot_bucket)
    /\ ret' = [ret EXCEPT !.lot_bucket = Some(lot_bucket(call.lots))]
    /\ UNCHANGED <<call, scannerVars, flowVars>>

apply_lots_from_oi_change ==
    /\ call.fn = "lots_from_oi_change"
    /\ IsNone(ret.lots_from_oi_change)
    /\ ret' = [ret EXCEPT !.lots_from_oi_change =
                  Some(lots_from_oi_change(call.symbol, call.oi_change))]
    /\ UNCHANGED <<call, scannerVars, flowVars>>

apply_parse_alert ==
    /\ call.fn = "parse_alert"
    /\ IsNone(ret.parse_alert)
    /\ ret' = [ret EXCEPT !.parse_alert = Some(parse_alert(call.text))]
    /\ UNCHANGED <<call, scannerVars, flowVars>>

apply_format_indian_value ==
    /\ call.fn = "format_indian_value"
    /\ IsNone(ret.format_indian_value)
    /\ ret' = [ret EXCEPT !.format_indian_value = Some(format_indian_value(call.val))]
    /\ UNCHANGED <<call, scannerVars, flowVars>>

NextPure ==
    \/ apply_classify_option
    \/ apply_classify_strike
    \/ apply_get_option_moneyness
    \/ apply_lot_bucket
    \/ apply_lots_from_oi_change
    \/ apply_parse_alert
    \/ apply_format_indian_value

SpecPure == InitPure /\ [][NextPure]_vars

----------------------------------------------------------------------------
(* Properties of the scanner, checked under Spec. *)

Dropped(outcome) == outcome \in {"no_symbol", "no_price", "no_oi"}

\* C1: the first tick accepted for a symbol only sets the baseline: it yields no
\* classified event and no alert, whatever its price and open interest.
C1_FirstTickBaselineOnly ==
    (Accepted(last.outcome) /\ last.first)
        => (last.outcome = "baseline" /\ last.event = NoEvent /\ ~last.event.alerted)

\* a first BANKNIFTY tick whose open interest alone is 84 lots was taken as baseline
C1_Witness ==
    /\ last.first
    /\ last.outcome = "baseline"
    /\ last.symbol = Some(Fut("BANKNIFTY"))
    /\ last.oi = Some(2530)

\* C2: once a symbol had its first accepted tick, every later accepted tick whose
\* open interest differs from the previous tick's is classified and is never
\* taken as a new baseline, also when the open interest passes through 0.
C2_BaselineOnlyOnce ==
    (Accepted(last.outcome) /\ ~last.first /\ last.oi[1] # last.oi_before)
        => last.outcome = "classified"

\* C3 as stated: a discarded tick yields no event and leaves the per-symbol state
\* and the future-price table unchanged.
C3_DroppedTickChangesNothing ==
    [][(ticks' # ticks /\ Dropped(last'.outcome))
          => (/\ last'.event = NoEvent
              /\ channel' = channel
              /\ symbol_data_state' = symbol_data_state
              /\ future_prices' = future_prices)]_vars

\* C3 amended: a discarded tick yields no event and leaves the per-symbol state
\* unchanged; the future-price table is unchanged too, except that a watched
\* future's tick with a price above 0 and no open interest sets the entry of its
\* underlying to that price.
C3_DroppedTickFrame ==
    [][(ticks' # ticks /\ Dropped(last'.outcome))
          => (/\ last'.event = NoEvent
              /\ channel' = channel
              /\ symbol_data_state' = symbol_data_state
              /\ future_prices' =
                    IF /\ last'.outcome = "no_oi"
                       /\ last'.symbol[1].kind = "FUT"
                       /\ last'.price[1] > 0
                    THEN [future_prices EXCEPT ![last'.symbol[1].underlying] = last'.price[1]]
                    ELSE future_prices)]_vars

\* a BANKNIFTY future tick without open interest moved the price table to 105
\* and left the symbol's own state alone
C3_Witness ==
    /\ last.outcome = "no_oi"
    /\ last.symbol = Some(Fut("BANKNIFTY"))
    /\ last.price = Some(105)
    /\ future_prices["BANKNIFTY"] = 105
    /\ symbol_data_state[Fut("BANKNIFTY")].price # 105

C6_ClassifiedEventsRecorded ==
    (Len(channel) = 0 /\ IsNone(alert_msg)) => recorded = classified

\* C14: for a tick that is diffed against an earlier one, oiRoc is 0 when the
\* prior open interest is 0 and (oiDelta / oiprev) * 100 otherwise.
C14_OiRocOfEveryDiffedTick ==
    (Accepted(last.outcome) /\ ~last.first /\ last.oi[1] # last.oi_before)
        => (/\ last.outcome = "classified"
            /\ IF last.oi_before = 0
               THEN last.event.oi_roc.num = 0
               ELSE last.event.oi_roc.num * last.oi_before
                       = (last.oi[1] - last.oi_before) * 100 * last.event.oi_roc.den)

\* C16: a tick whose open interest equals the symbol's previous one yields no
\* event and no alert, also when its price changed, and the symbol's state still
\* advances: price and oi take the tick's values, price_prev and oi_prev the
\* former ones.
C16_UnchangedOiNoEvent ==
    [][(/\ ticks' # ticks
        /\ Accepted(last'.outcome)
        /\ last'.oi[1] = symbol_data_state[last'.symbol[1]].oi)
          => (/\ last'.event = NoEvent
              /\ alert_msg' = alert_msg
              /\ channel' = channel
              /\ symbol_data_state'[last'.symbol[1]] =
                    [price |-> last'.price[1],
                     price_prev |-> symbol_data_state[last'.symbol[1]].price,
                     oi |-> last'.oi[1],
                     oi_prev |-> symbol_data_state[last'.symbol[1]].oi])]_vars

\* a BANKNIFTY tick moved the price at an unchanged, non-zero open interest
C16_Witness ==
    /\ last.outcome = "unchanged"
    /\ last.symbol = Some(Fut("BANKNIFTY"))
    /\ symbol_data_state[Fut("BANKNIFTY")].price # symbol_data_state[Fut("BANKNIFTY")].price_prev
    /\ symbol_data_state[Fut("BANKNIFTY")].oi = symbol_data_state[Fut("BANKNIFTY")].oi_prev

ZeroTick == [price |-> 0, oi |-> 0]

\* C18: for every symbol, price and oi are those of its latest accepted tick and
\* price_prev and oi_prev those of the accepted tick before it, zeros standing
\* for a tick that never was; a tick changes the state of no other symbol.
C18_PrevHoldsPrecedingTick ==
    \A s \in SYMBOLS_TO_MONITOR :
        LET h == history[s]
            cur == IF Len(h) = 0 THEN ZeroTick ELSE h[Len(h)]
            prev == IF Len(h) < 2 THEN ZeroTick ELSE h[1]
        IN  symbol_data_state[s] =
                [price |-> cur.price, price_prev |-> prev.price,
                 oi |-> cur.oi, oi_prev |-> prev.oi]

\* BANKNIFTY had two accepted ticks with different values, SBIN one
C18_Witness ==
    /\ Len(history[Fut("BANKNIFTY")]) = 2
    /\ history[Fut("BANKNIFTY")][1] = [price |-> 100, oi |-> 1000]
    /\ history[Fut("BANKNIFTY")][2] = [price |-> 105, oi |-> 2530]
    /\ Len(history[Fut("SBIN")]) = 1

\* C19: the price table holds, per underlying, the price of the latest tick of
\* a watched future with a price above 0, and 0 when there was none; a future
\* tick with a price of 0 or less and a tick of an option leave it unchanged.
C19_TableHoldsLatestFuturePrice ==
    \A u \in DOMAIN future_prices : future_prices[u] = latest_future[u]

\* a BANKNIFTY future tick with price 0 left the earlier 105 in the table
C19_Witness ==
    /\ last.symbol = Some(Fut("BANKNIFTY"))
    /\ last.price = Some(0)
    /\ future_prices["BANKNIFTY"] = 105

\* C20: ticks are handled one at a time: while a call of process_data awaits the
\* dispatch of its alert no other call has run, so the latest call is that one
\* and the alert describes the state its tick left.
C20_OneTickAtATime ==
    ~IsNone(alert_msg)
        => (/\ last.event.alerted
            /\ alert_msg[1].body.lots = last.event.lots
            /\ alert_msg[1].body.oi_chg = last.event.oi_chg
            /\ alert_msg[1].body.price = symbol_data_state[last.symbol[1]].price
            /\ alert_msg[1].body.existing_oi = symbol_data_state[last.symbol[1]].oi_prev
            /\ alert_msg[1].body.oi_chg =
                  symbol_data_state[last.symbol[1]].oi
                  - symbol_data_state[last.symbol[1]].oi_prev)

\* a second alert awaits its dispatch after the first one reached the chat
C20_Witness ==
    /\ ~IsNone(alert_msg)
    /\ Len(channel) >= 1
    /\ ticks >= 3

----------------------------------------------------------------------------
(* Properties of the flow bot, checked under SpecFlow. *)

RECURSIVE Contribution(_, _)
\* the sum of the turnover of the alerts of `batch` for the underlying `sym`
Contribution(batch, sym) ==
    IF Len(batch) = 0 THEN 0
    ELSE (IF Head(batch).alert.symbol = sym THEN Head(batch).alert.turnover ELSE 0)
         + Contribution(Tail(batch), sym)

RECURSIVE SumOver(_, _)
SumOver(f, keys) ==
    IF Len(keys) = 0 THEN 0 ELSE f[Head(keys)] + SumOver(f, Tail(keys))

\* the turnover a report shows for `sym`: the TOT cell of every option row plus
\* the four future rows; 0 when the report has no section for it
ReportTotal(r, sym) ==
    IF sym \notin DOMAIN r THEN 0
    ELSE SumOver([a \in Range(OptionActions) |-> r[sym].options[a].TOT], OptionActions)
         + SumOver(r[sym].futures, FutureActions)

\* C7: the totals of a flush's report equal, per underlying, the sum of the
\* turnover of the alerts recorded since the previous flush.
C7_ReportTotalsEqualContributions ==
    ~IsNone(report) =>
        \A s \in Range(TRACK_SYMBOLS) :
            ReportTotal(report[1], s) = Contribution(current_batch, s)

RECURSIVE Count(_, _)
Count(x, seq) ==
    IF Len(seq) = 0 THEN 0
    ELSE (IF Head(seq) = x THEN 1 ELSE 0) + Count(x, Tail(seq))

\* C8: however record and flush interleave, every recorded alert is either still
\* in the buffer or in the batch of exactly one flush, never both and never neither.
C8_EveryAlertInExactlyOneBatch ==
    \A id \in 1..recorded :
        Count(id, Ids(alerts_buffer)) + Count(id, flushed) = 1

\* an alert arrived while the second flush was still sending its report
C8_Witness ==
    /\ summary_pc = "sending"
    /\ flushes >= 2
    /\ Len(flushed) >= 2
    /\ Len(alerts_buffer) >= 1

\* C9 as stated: a flush directly after a flush produces a report, that report
\* holds no turnover, and the buffer is empty after a flush.
C9_SecondFlushEmptyReport ==
    /\ trace[2] = "flush" => Len(alerts_buffer) = 0
    /\ trace = <<"flush", "flush">>
          => (~IsNone(report)
              /\ \A s \in Range(TRACK_SYMBOLS) : ReportTotal(report[1], s) = 0)

\* C9 amended: a flush directly after a flush returns early and produces no
\* report at all; the buffer is empty after a flush.
C9_SecondFlushNoReport ==
    /\ trace[2] = "flush" => Len(alerts_buffer) = 0
    /\ trace = <<"flush", "flush">> => IsNone(report)

\* the first of two flushes in a row had taken recorded alerts
C9_Witness ==
    /\ trace = <<"flush", "flush">>
    /\ Len(flushed) >= 1
    /\ IsNone(report)

----------------------------------------------------------------------------
(* Properties of the pure functions, checked under SpecPure. *)

Sign(n) == IF n > 0 THEN 1 ELSE IF n < 0 THEN -1 ELSE 0

\* the action of each of the nine sign combinations <<sign(oiDelta), sign(priceDelta)>>
ActionTable(so, sp) ==
    CASE so = 1 /\ sp = 0 -> "HEDGING"
      [] so = -1 /\ sp = 0 -> "REMOVE FROM HEDGE"
      [] so = 1 /\ sp = 1 -> "BUYER(LONG)"
      [] so = 1 /\ sp = -1 -> "WRITER(SHORT)"
      [] so = -1 /\ sp = 1 -> "REMOVE FROM SHORT"
      [] so = -1 /\ sp = -1 -> "REMOVE FROM LONG"
      [] so = 0 -> "Indecisive Movement"

\* C4: classify_option depends on the signs of the two deltas only and gives, for
\* each of the nine sign combinations, the action of the ordered rules, the
\* price-unchanged rules coming first.
C4_ClassificationTable ==
    (call.fn = "classify_option" /\ ~IsNone(ret.classify_option))
        => ret.classify_option[1] = ActionTable(Sign(call.oi_change), Sign(call.price_change))

\* a rise of open interest at an unchanged price was classified HEDGING
C4_Witness ==
    /\ call.fn = "classify_option"
    /\ call.oi_change > 0
    /\ call.price_change = 0
    /\ ret.classify_option = Some("HEDGING")

\* the zone of section 4.4 for a band that is the underlying's configured constant
BandZone(underlying, strike, option_type, future_price) ==
    LET band == ATM_RANGE[underlying]
    IN  IF Abs(future_price - strike) <= band THEN "ATM"
        ELSE IF option_type = "CE" /\ strike < future_price - band THEN "ITM"
        ELSE IF option_type = "PE" /\ strike > future_price + band THEN "ITM"
        ELSE "OTM"

\* C10: for a known future price, both moneyness functions give the zone decided
\* by the underlying's configured band: ATM within the band, a call ITM below
\* f - band, a put ITM above f + band, OTM otherwise.
C10_BothMoneynessFollowBand ==
    (call.fn = "moneyness" /\ call.future_price # 0)
        => (/\ ~IsNone(ret.classify_strike)
                => ret.classify_strike[1] =
                      Some(BandZone(call.underlying, call.strike, call.option_type,
                                    call.future_price))
            /\ ~IsNone(ret.get_option_moneyness)
                => ret.get_option_moneyness[1] =
                      BandZone(call.underlying, call.strike, call.option_type,
                               call.future_price))

\* the option texts of the model that carry no usable future price
NoFuturePrice(text) ==
    \/ IsNone(text.labels.FUTURE_PRICE)
    \/ text.labels.FUTURE_PRICE[1] = 0

IsOptionText(text) ==
    /\ ~IsNone(text.labels.SYMBOL)
    /\ text.labels.SYMBOL[1].kind \in {"CE", "PE"}

\* what get_option_moneyness returns when it computes the zone from a known price
ComputedMoneyness ==
    {get_option_moneyness(Opt(c.underlying, c.strike, c.option_type),
                          [future_prices EXCEPT ![c.underlying] = c.future_price]) :
        c \in {d \in MoneynessCases : d.future_price # 0}}

\* C11: an option without an observed future price is reported as OTM in a way
\* that differs from every computed result, by the scanner's moneyness function, and
\* the flow bot aggregates such an option under the zone OTM
C11_UnknownFuturePriceIsFlaggedOtm ==
    /\ (/\ call.fn = "moneyness"
        /\ call.future_price = 0
        /\ ~IsNone(ret.get_option_moneyness))
       => ret.get_option_moneyness[1] \notin ComputedMoneyness
    /\ (/\ call.fn = "parse_alert"
        /\ IsOptionText(call.text)
        /\ NoFuturePrice(call.text)
        /\ ~IsNone(ret.parse_alert)
        /\ ~IsNone(ret.parse_alert[1]))
       => ret.parse_alert[1][1].zone = Some("OTM")

\* the tiers of the size bucket, lowest first
BucketRank(bucket) ==
    CASE bucket = "IGNORE" -> 0
      [] bucket = "LOW" -> 1
      [] bucket = "MEDIUM" -> 2
      [] bucket = "HIGH" -> 3
      [] bucket = "EXTRA HIGH" -> 4
      [] bucket = "EXTREME HIGH" -> 5

BucketTable(lots) ==
    CASE lots >= 200 -> "EXTREME HIGH"
      [] lots \in 150..199 -> "EXTRA HIGH"
      [] lots \in 100..149 -> "HIGH"
      [] lots \in 75..99 -> "MEDIUM"
      [] lots \in 1..74 -> "LOW"
      [] lots < 1 -> "IGNORE"

\* C12: the size bucket of a lot count is the tier of the table (>= 200, 150..199,
\* 100..149, 75..99, 1..74, below 1), and no smaller lot count has a higher tier
C12_LotBucketTiers ==
    (call.fn = "lot_bucket" /\ ~IsNone(ret.lot_bucket)) =>
        /\ ret.lot_bucket[1] = BucketTable(call.lots)
        /\ \A m \in -1..call.lots :
              BucketRank(lot_bucket(m)) <= BucketRank(ret.lot_bucket[1])

C12_Witness ==
    /\ call.fn = "lot_bucket"
    /\ call.lots = 75
    /\ ret.lot_bucket = Some("MEDIUM")

\* the registry lot size of a symbol's underlying, 75 when it has none
RegistryLotSize(symbol) ==
    CASE symbol.underlying = "BANKNIFTY" -> 30
      [] symbol.underlying = "HDFCBANK" -> 550
      [] symbol.underlying = "ICICIBANK" -> 700
      [] symbol.underlying = "SBIN" -> 750
      [] OTHER -> 75

\* C13: the lot count of an open-interest change is floor(|change| / lot size) with
\* the registry lot size of the underlying or the default 75; it is not negative and
\* the change of opposite sign has the same lot count
C13_LotsAreFloorOfMagnitude ==
    (call.fn = "lots_from_oi_change" /\ ~IsNone(ret.lots_from_oi_change)) =>
        LET q == ret.lots_from_oi_change[1]
            size == RegistryLotSize(call.symbol)
        IN  /\ q >= 0
            /\ q * size <= Abs(call.oi_change)
            /\ Abs(call.oi_change) < (q + 1) * size
            /\ q = lots_from_oi_change(call.symbol, -call.oi_change)

C13_Witness ==
    /\ call.fn = "lots_from_oi_change"
    /\ call.symbol = Fut("RELIANCE")
    /\ call.oi_change = -160
    /\ ret.lots_from_oi_change = Some(2)

\* C15: the turnover of a parsed alert is |OI CHANGE| times the number of its PRICE
\* label for an option, and LOTS times 100000 for a future
C15_TurnoverOfParsedAlert ==
    (/\ call.fn = "parse_alert"
     /\ ~IsNone(ret.parse_alert)
     /\ ~IsNone(ret.parse_alert[1])) =>
        LET labels == call.text.labels
            alert == ret.parse_alert[1][1]
            oi == IF IsNone(labels.OI_CHANGE) THEN 0 ELSE labels.OI_CHANGE[1]
            last_price == IF IsNone(labels.PRICE) THEN 0 ELSE labels.PRICE[1]
        IN  IF IsOptionText(call.text)
            THEN alert.turnover = Abs(oi) * last_price
            ELSE alert.turnover = labels.LOTS[1] * 100000

\* the rendering of the model's values, written out
FormatTable(val) ==
    CASE val = 0 -> "0"
      [] val = 7 -> "7"
      [] val = 999 -> "999"
      [] val = 1000 -> "1,000"
      [] val = 4321 -> "4,321"
      [] val = 99999 -> "99,999"
      [] val = 100000 -> "1.00 L"
      [] val = 100001 -> "1.00 L"
      [] val = 250000 -> "2.50 L"
      [] val = 1234567 -> "12.35 L"
      [] val = 9999999 -> "100.00 L"
      [] val = 10000000 -> "1.00 Cr"
      [] val = 12345678 -> "1.23 Cr"
      [] val = 987654321 -> "98.77 Cr"
      [] val = -4321 -> "-4,321"
      [] val = -250000 -> "-2.50 L"

\* C17: the formatter renders a value of magnitude >= 10,000,000 in crore with two
\* decimals, of magnitude >= 100,000 in lakh with two decimals, and a smaller one as
\* a thousands-grouped integer: 12345678 is "1.23 Cr", 250000 "2.50 L", 4321 "4,321"
C17_FormatTiers ==
    (call.fn = "format_indian_value" /\ ~IsNone(ret.format_indian_value)) =>
        ret.format_indian_value[1] = FormatTable(call.val)

C17_Witness ==
    /\ call.fn = "format_indian_value"
    /\ call.val = 10000000
    /\ ret.format_indian_value = Some("1.00 Cr")

----------------------------------------------------------------------------
(* Properties of the connection loop, checked under SpecConn. *)

\* C21: run_scanner never terminates; a packet whose processing raises leaves the
\* loop on the same live connection, ready for the next packet; a delivery that
\* returns, successful or not, leaves the loop where it was; and a loop that left
\* a connection or was refused authentication gets back to connecting
C21_NothingIsFatal ==
    /\ [](conn.pc \in {"connect", "auth", "subscribe", "announce", "live", "sleep"})
    /\ [][(ticks' = ticks + 1 /\ last'.outcome = "raised")
            => (/\ conn'.pc = "live"
                /\ conn'.attempt = conn.attempt
                /\ conn'.authenticated
                /\ conn'.subscribed
                /\ conn'.received = conn.received + 1)]_vars
    /\ [][(~IsNone(alert_msg) /\ IsNone(alert_msg')) => conn' = conn]_vars
    /\ [][(conn.pc \in {"auth", "subscribe", "live"} /\ ~conn'.authenticated)
            => conn'.pc \in {"connect", "sleep"}]_vars
    /\ (conn.pc = "sleep") ~> (conn.pc = "connect")

\* a packet is classified on a connection on which an earlier packet raised
C21_Witness ==
    /\ conn.pc = "live"
    /\ conn.failed > 0
    /\ conn.received > conn.failed
    /\ last.outcome = "classified"

\* C23: only the processing of a packet writes the per-symbol state and the
\* future-price table, so connecting, authenticating and subscribing again leave
\* them as they were; a packet is processed only on a live connection that was
\* authenticated and subscribed; and every accepted packet, the first after a
\* reconnect included, is diffed against the values stored before it
C23_StateSurvivesReconnect ==
    /\ [][ticks' = ticks
            => (/\ symbol_data_state' = symbol_data_state
                /\ future_prices' = future_prices)]_vars
    /\ [][ticks' # ticks
            => (conn.pc = "live" /\ conn.authenticated /\ conn.subscribed)]_vars
    /\ [][(ticks' = ticks + 1 /\ Accepted(last'.outcome))
            => LET s == last'.symbol[1]
               IN  /\ symbol_data_state'[s].oi_prev = symbol_data_state[s].oi
                   /\ symbol_data_state'[s].price_prev = symbol_data_state[s].price]_vars

\* the first packet of the second connection is diffed against the packet
\* received before the disconnect, classified and alerted
C23_Witness ==
    /\ conn.attempt = 2
    /\ conn.received = 1
    /\ ticks >= 2
    /\ last.outcome = "classified"
    /\ last.oi_before = 1000
    /\ last.event.alerted

----------------------------------------------------------------------------
(* Properties of the flow bot under its repeating job, checked under SpecFlowFair. *)

====
